---- MODULE Spec2Model ----
(***************************************************************************)
(* Model of the resumable fetch subsystem of jira-llm-scraper:             *)
(*   src/src/scraper/checkpoint.py   CheckpointManager (SQLite store)      *)
(*   src/src/scraper/fetcher.py      JiraFetcher.fetch_project (generator)  *)
(*   src/src/scraper/jira_client.py  JiraClient.search_issues / get_issue   *)
(*   src/src/scraper/rate_limiter.py RateLimiter.wait_if_needed            *)
(*                                                                         *)
(* Spec       : fetch_project runs (start, paginate, yield, checkpoint,    *)
(*              complete, fail, kill, resume) over the checkpoint store.   *)
(* SpecWide   : the same runs with one batch of four records.             *)
(* SpecClient : the retry loop of search_issues and the single-shot        *)
(*              get_issue against a server that may answer anything.       *)
(* SpecClientFair: SpecClient where a call under way keeps stepping.      *)
(* SpecLimiter: threads calling wait_if_needed of one RateLimiter while    *)
(*              the wall clock advances (time in tenths of a second).      *)
(* SpecLimiterFair: the same calls queueing for a fair lock.             *)
(* SpecStore  : any sequence of direct CheckpointManager calls.            *)
(*                                                                         *)
(* A record of the remote project is identified with its pagination        *)
(* position (0 = newest); its key is that position.  Timestamps of the     *)
(* store rows are not modelled.                                            *)
(***************************************************************************)
EXTENDS Integers, Sequences, FiniteSets, TLC

\* ---------------------------------------------------------------- bounds
MaxIssues   == 3    \* largest max_issues of a project
MaxBatch    == 2    \* largest scraping.batch_size
MaxEvery    == 2    \* largest checkpointing.checkpoint_every
MaxServer   == 3    \* largest number of records the server holds
MaxErrors   == 1    \* cap on the length of the errors table
MaxComments == 1    \* scraping.features.max_comments
MaxRetry    == 3    \* largest retry_attempts of the client
MaxBackoff  == 3    \* largest backoff_factor of the client
MaxRpm      == 2    \* largest requests_per_minute of a limiter
MaxThreads  == 2    \* threads calling one limiter
MaxGrants   == 3    \* grants followed per behaviour
MaxClock    == 1600 \* the clock stops ticking on its own here
WideBatch   == 4    \* batch_size and max_issues of the wide-batch runs
MaxLog      == 2    \* cap on the errors table under direct store calls
MaxStore    == 1    \* largest offset and total passed to a direct store call

Projects == {"DEMO"}

Min(a, b) == IF a < b THEN a ELSE b

\* Python's None
None == [status |-> "None"]

\* the sentinel key the batch error handler stores (fetcher.py:148)
ERROR == -1

\* the key logged for a record that has none (fetcher.py:132)
UNKNOWN == -2

VARIABLES
    \* --- CheckpointManager tables (persistent)
    checkpoints,      \* project -> row, defined on the projects that have a row
    errors,           \* sequence of [project, issue_key] entries
    statistics,       \* project -> row, defined on the projects that have a row
    \* --- configuration and environment, fixed during a behaviour
    config,           \* [max_issues, batch_size, checkpoint_every, fetch_comments]
    server_total,     \* number of records the remote project holds
    \* --- one fetch_project generator frame (transient)
    pc,               \* position of the generator
    project_key,
    total_scraped,
    current_index,
    issues,           \* number of records of the current batch
    i,                \* index of the record being processed in the batch
    total_comments,
    \* --- observation of the runs (history, not read by the program)
    obs,
    \* --- JiraClient call frame (SpecClient)
    client,
    \* --- RateLimiter, its callers and the wall clock (SpecLimiter)
    limiter,
    \* --- the last CheckpointManager call made directly (SpecStore)
    last_op

storeVars == <<checkpoints, errors, statistics>>
envVars   == <<config, server_total>>
frameVars == <<pc, project_key, total_scraped, current_index, issues, i, total_comments>>
vars      == <<checkpoints, errors, statistics, config, server_total, pc, project_key,
               total_scraped, current_index, issues, i, total_comments, obs, client,
               limiter, last_op>>

\* ------------------------------------------------ CheckpointManager
get_checkpoint(project) ==
    IF project \in DOMAIN checkpoints THEN checkpoints[project] ELSE None

\* the save as INSERT OR IGNORE: an existing row is kept
save_checkpoint_insert_only(project, last_issue_key, last_index, total) ==
    [q \in (DOMAIN checkpoints) \cup {project} |->
        IF q \in DOMAIN checkpoints THEN checkpoints[q]
        ELSE [last_issue_key |-> last_issue_key, last_index |-> last_index,
              total_scraped |-> total, status |-> "in_progress"]]

\* checkpoint.py:85-107  INSERT OR REPLACE on the primary key project
save_checkpoint(project, last_issue_key, last_index, total) ==
    [q \in (DOMAIN checkpoints) \cup {project} |->
        IF q = project
        THEN [last_issue_key |-> last_issue_key, last_index |-> last_index,
              total_scraped |-> total, status |-> "in_progress"]
        ELSE checkpoints[q]]

\* the completion as INSERT OR REPLACE of a row holding only the status
mark_complete_replace(project) ==
    [q \in (DOMAIN checkpoints) \cup {project} |->
        IF q = project
        THEN [last_issue_key |-> ERROR, last_index |-> 0, total_scraped |-> 0,
              status |-> "completed"]
        ELSE checkpoints[q]]

\* checkpoint.py:109-116  UPDATE ... SET status = 'completed' WHERE project = ?
mark_complete(project) ==
    [q \in DOMAIN checkpoints |->
        IF q = project THEN [checkpoints[q] EXCEPT !.status = "completed"]
        ELSE checkpoints[q]]

\* an entry equal to a stored one is not stored again
log_error_dedup(project, issue_key) ==
    IF \E n \in 1..Len(errors) :
          errors[n] = [project |-> project, issue_key |-> issue_key]
    THEN errors
    ELSE Append(errors, [project |-> project, issue_key |-> issue_key])

\* checkpoint.py:118-132  INSERT INTO errors: one new row
log_error(project, issue_key) ==
    Append(errors, [project |-> project, issue_key |-> issue_key])

save_statistics(project, total_issues, comments) ==
    [q \in (DOMAIN statistics) \cup {project} |->
        IF q = project
        THEN [total_issues |-> total_issues, total_comments |-> comments]
        ELSE statistics[q]]

get_statistics(project) ==
    IF project \in DOMAIN statistics THEN statistics[project] ELSE None

\* the errors table left as it is
ErrorsWithout_kept(project) == errors

\* checkpoint.py:168  the errors table without the entries of a project
ErrorsWithout(project) ==
    LET F[n \in 0..Len(errors)] ==
            IF n = 0 THEN <<>>
            ELSE IF errors[n].project # project THEN Append(F[n-1], errors[n])
                 ELSE F[n-1]
    IN F[Len(errors)]

\* ------------------------------------------------ the remote server
\* comments the server holds for the record at a position
ServerComments(pos) == pos % 3

\* how many records a page request may return
PageSizes(start_at, max_results) ==
    LET avail == Min(max_results, server_total - start_at)
    IN IF avail >= 1 THEN 1..avail ELSE {0}

\* ------------------------------------------------ JiraFetcher
_fetch_comments(pos) == Min(ServerComments(pos), MaxComments)

Idle == pc \in {"idle", "reset", "skipped", "done", "failed", "killed"}

\* the guard with a misspelt status value
AlreadyCompleted_misspelt(checkpoint_data) ==
    checkpoint_data # None /\ checkpoint_data.status = "complete"

\* fetcher.py:55  the guard of the early return
AlreadyCompleted(checkpoint_data) ==
    checkpoint_data # None /\ checkpoint_data.status = "completed"

\* the resume offset without the increment
StartIndex_same(checkpoint_data) ==
    IF checkpoint_data # None THEN checkpoint_data.last_index ELSE 0

\* fetcher.py:59
StartIndex(checkpoint_data) ==
    IF checkpoint_data # None THEN checkpoint_data.last_index + 1 ELSE 0

\* fetcher.py:60
StartTotal(checkpoint_data) ==
    IF checkpoint_data # None THEN checkpoint_data.total_scraped ELSE 0

\* the periodic test made on the count before the increment
CheckpointDue_stale(total) == (total - 1) % config.checkpoint_every = 0

\* fetcher.py:121  the periodic checkpoint is due
CheckpointDue(total) == total % config.checkpoint_every = 0

\* fetcher.py:125  the index stored by the periodic checkpoint
CheckpointIndex(cur, k) == cur + k + 1

\* the snapshot taken one position further
SnapshotIndex_next == current_index + 1

\* fetcher.py:149  the offset stored by the batch error handler
SnapshotIndex == current_index

\* the offset advanced by the size that was asked for
NextIndex_requested == current_index + Min(config.batch_size,
                                           config.max_issues - current_index)

\* fetcher.py:136  the offset advanced by the number of records returned
NextIndex == current_index + issues

\* fetcher.py:79-80
batch_max == Min(config.batch_size, config.max_issues - current_index)

\* what a new invocation remembers of the previous one
NewObs(cp) ==
    [obs EXCEPT !.yielded = {},
                !.prev_yielded = IF pc = "killed" THEN obs.yielded ELSE {},
                !.prev_end = pc,
                !.search_calls = 0, !.first_request = -1, !.first_total = -1,
                !.last_request = -1,
                !.store_writes = 0, !.save_log = <<>>, !.cp_at_start = cp,
                !.clean = TRUE]

NoteSearch ==
    [obs EXCEPT !.search_calls = @ + 1,
                !.first_request = IF obs.search_calls = 0 THEN current_index ELSE @,
                !.first_total = IF obs.search_calls = 0 THEN total_scraped ELSE @,
                !.last_request = current_index]

\* fetcher.py:53-57  the project is already completed: return at once
StartCompleted(p) ==
    /\ Idle
    /\ AlreadyCompleted(get_checkpoint(p))
    /\ pc' = "skipped"
    /\ project_key' = p
    /\ total_scraped' = 0 /\ current_index' = 0 /\ issues' = 0 /\ i' = 0
    /\ total_comments' = 0
    /\ obs' = NewObs(get_checkpoint(p))
    /\ UNCHANGED <<storeVars, envVars, client, limiter, last_op>>

\* fetcher.py:53-73  fresh start or resume
StartRun(p) ==
    /\ Idle
    /\ ~AlreadyCompleted(get_checkpoint(p))
    /\ current_index' = StartIndex(get_checkpoint(p))
    /\ total_scraped' = StartTotal(get_checkpoint(p))
    /\ obs' = NewObs(get_checkpoint(p))
    /\ pc' = "loop"
    /\ project_key' = p
    /\ issues' = 0 /\ i' = 0 /\ total_comments' = 0
    /\ UNCHANGED <<storeVars, envVars, client, limiter, last_op>>

\* fetcher.py:76  the loop condition is false
LoopExit ==
    /\ pc = "loop"
    /\ ~(current_index < config.max_issues)
    /\ pc' = "complete"
    /\ UNCHANGED <<storeVars, envVars, project_key, total_scraped, current_index,
                   issues, i, total_comments, obs, client, limiter, last_op>>

\* fetcher.py:76-99  search_issues returns a page (an empty one ends the loop)
SearchOk ==
    /\ pc = "loop"
    /\ current_index < config.max_issues
    /\ \E n \in PageSizes(current_index, batch_max) :
          /\ issues' = n
          /\ pc' = IF n = 0 THEN "complete" ELSE "process"
    /\ i' = 0
    /\ obs' = NoteSearch
    /\ UNCHANGED <<storeVars, envVars, project_key, total_scraped, current_index,
                   total_comments, client, limiter, last_op>>

\* fetcher.py:85-90,143-152  search_issues raises: snapshot, re-raise
SearchFail ==
    /\ pc = "loop"
    /\ current_index < config.max_issues
    /\ checkpoints' = save_checkpoint(project_key, ERROR, SnapshotIndex, total_scraped)
    /\ pc' = "failed"
    /\ obs' = [NoteSearch EXCEPT !.store_writes = @ + 1, !.clean = FALSE,
                                 !.cp_kind = "error"]
    /\ UNCHANGED <<errors, statistics, envVars, project_key, total_scraped,
                   current_index, issues, i, total_comments, client, limiter, last_op>>

\* fetcher.py:102-115  the record is enriched and handed to the consumer
YieldIssue ==
    /\ pc = "process"
    /\ i < issues
    /\ total_comments' = IF config.fetch_comments
                         THEN total_comments + _fetch_comments(current_index + i)
                         ELSE total_comments
    /\ pc' = "yielded"
    /\ obs' = [obs EXCEPT !.yielded = @ \cup {current_index + i}]
    /\ UNCHANGED <<storeVars, envVars, project_key, total_scraped, current_index,
                   issues, i, client, limiter, last_op>>

\* fetcher.py:104,130-133  the record has no key: logged, skipped
EnrichFail ==
    /\ pc = "process"
    /\ i < issues
    /\ Len(errors) < MaxErrors
    /\ errors' = log_error(project_key, UNKNOWN)
    /\ i' = i + 1
    /\ obs' = [obs EXCEPT !.store_writes = @ + 1, !.clean = FALSE]
    /\ UNCHANGED <<checkpoints, statistics, envVars, pc, project_key, total_scraped,
                   current_index, issues, total_comments, client, limiter, last_op>>

\* fetcher.py:117-128  the consumer asks for the next record: count, checkpoint
AfterYield ==
    /\ pc = "yielded"
    /\ total_scraped' = total_scraped + 1
    /\ IF CheckpointDue(total_scraped + 1)
       THEN /\ checkpoints' = save_checkpoint(project_key, current_index + i,
                                  CheckpointIndex(current_index, i), total_scraped + 1)
            /\ obs' = [obs EXCEPT !.store_writes = @ + 1,
                                  !.save_log = Append(@, total_scraped + 1),
                                  !.cp_kind = "periodic",
                                  !.cp_next = current_index + i + 1]
       ELSE UNCHANGED <<checkpoints, obs>>
    /\ i' = i + 1
    /\ pc' = "process"
    /\ UNCHANGED <<errors, statistics, envVars, project_key, current_index, issues,
                   total_comments, client, limiter, last_op>>

\* fetcher.py:122-133  save_checkpoint raises: caught by the per-record handler
AfterYieldSaveFails ==
    /\ pc = "yielded"
    /\ CheckpointDue(total_scraped + 1)
    /\ Len(errors) < MaxErrors
    /\ total_scraped' = total_scraped + 1
    /\ errors' = log_error(project_key, current_index + i)
    /\ obs' = [obs EXCEPT !.store_writes = @ + 1, !.clean = FALSE]
    /\ i' = i + 1
    /\ pc' = "process"
    /\ UNCHANGED <<checkpoints, statistics, envVars, project_key, current_index,
                   issues, total_comments, client, limiter, last_op>>

\* fetcher.py:104,130-132,143-152  the record has no key and log_error raises
\* in the per-record handler: the batch handler snapshots and re-raises
EnrichFailLogFails ==
    /\ pc = "process"
    /\ i < issues
    /\ checkpoints' = save_checkpoint(project_key, ERROR, SnapshotIndex, total_scraped)
    /\ pc' = "failed"
    /\ obs' = [obs EXCEPT !.store_writes = @ + 1, !.clean = FALSE, !.cp_kind = "error"]
    /\ UNCHANGED <<errors, statistics, envVars, project_key, total_scraped,
                   current_index, issues, i, total_comments, client, limiter, last_op>>

\* fetcher.py:117-132,143-152  save_checkpoint raises, then log_error raises
\* in the per-record handler: the batch handler snapshots and re-raises
AfterYieldLogFails ==
    /\ pc = "yielded"
    /\ CheckpointDue(total_scraped + 1)
    /\ total_scraped' = total_scraped + 1
    /\ checkpoints' = save_checkpoint(project_key, ERROR, SnapshotIndex,
                                      total_scraped + 1)
    /\ pc' = "failed"
    /\ obs' = [obs EXCEPT !.store_writes = @ + 1, !.clean = FALSE, !.cp_kind = "error"]
    /\ UNCHANGED <<errors, statistics, envVars, project_key, current_index, issues,
                   i, total_comments, client, limiter, last_op>>

\* fetcher.py:135-141  the batch is processed
EndBatch ==
    /\ pc = "process"
    /\ i = issues
    /\ current_index' = NextIndex
    /\ pc' = IF total_scraped >= config.max_issues THEN "complete" ELSE "loop"
    /\ UNCHANGED <<storeVars, envVars, project_key, total_scraped, issues, i,
                   total_comments, obs, client, limiter, last_op>>

\* fetcher.py:155-156
MarkComplete ==
    /\ pc = "complete"
    /\ checkpoints' = mark_complete(project_key)
    /\ pc' = "stats"
    /\ obs' = [obs EXCEPT !.store_writes = @ + 1]
    /\ UNCHANGED <<errors, statistics, envVars, project_key, total_scraped,
                   current_index, issues, i, total_comments, client, limiter, last_op>>

\* fetcher.py:157-166
SaveStatistics ==
    /\ pc = "stats"
    /\ statistics' = save_statistics(project_key, total_scraped, total_comments)
    /\ pc' = "done"
    /\ obs' = [obs EXCEPT !.store_writes = @ + 1]
    /\ UNCHANGED <<checkpoints, errors, envVars, project_key, total_scraped,
                   current_index, issues, i, total_comments, client, limiter, last_op>>

\* the process is killed while the generator is live
Kill ==
    /\ ~Idle
    /\ pc' = "killed"
    /\ total_scraped' = 0 /\ current_index' = 0 /\ issues' = 0 /\ i' = 0
    /\ total_comments' = 0
    /\ UNCHANGED <<storeVars, envVars, project_key, obs, client, limiter, last_op>>

\* main.py:96-101, checkpoint.py:164-170  --reset <project>
ResetProject(p) ==
    /\ Idle
    /\ checkpoints' = [q \in (DOMAIN checkpoints) \ {p} |-> checkpoints[q]]
    /\ errors' = ErrorsWithout(p)
    /\ statistics' = [q \in (DOMAIN statistics) \ {p} |-> statistics[q]]
    /\ pc' = "reset"
    /\ project_key' = p
    /\ obs' = [obs EXCEPT !.cp_kind = "none", !.cp_next = -1]
    /\ UNCHANGED <<envVars, total_scraped, current_index, issues, i,
                   total_comments, client, limiter, last_op>>

ClientIdle == [state |-> "idle"]

\* no RateLimiter object exists yet
LimiterNone == [constructed |-> "no"]

\* no direct store call was made yet
NoOp == [op |-> "none"]

ObsInit ==
    [yielded |-> {}, prev_yielded |-> {}, prev_end |-> "idle",
     search_calls |-> 0, first_request |-> -1, first_total |-> -1,
     last_request |-> -1,
     store_writes |-> 0, save_log |-> <<>>, cp_at_start |-> None, clean |-> TRUE,
     cp_kind |-> "none", cp_next |-> -1]

Init ==
    /\ checkpoints = <<>>
    /\ errors = <<>>
    /\ statistics = <<>>
    /\ config \in [max_issues : 0..MaxIssues, batch_size : 1..MaxBatch,
                   checkpoint_every : 1..MaxEvery, fetch_comments : BOOLEAN]
    /\ server_total \in 0..MaxServer
    /\ pc = "idle"
    /\ project_key = "DEMO"
    /\ total_scraped = 0 /\ current_index = 0 /\ issues = 0 /\ i = 0
    /\ total_comments = 0
    /\ obs = ObsInit
    /\ client = ClientIdle
    /\ limiter = LimiterNone
    /\ last_op = NoOp

Next ==
    \/ \E p \in Projects : StartCompleted(p)
    \/ \E p \in Projects : StartRun(p)
    \/ LoopExit
    \/ SearchOk
    \/ SearchFail
    \/ YieldIssue
    \/ EnrichFail
    \/ AfterYield
    \/ AfterYieldSaveFails
    \/ EnrichFailLogFails
    \/ AfterYieldLogFails
    \/ EndBatch
    \/ MarkComplete
    \/ SaveStatistics
    \/ Kill
    \/ \E p \in Projects : ResetProject(p)

Spec == Init /\ [][Next]_vars

\* the same runs with one batch as wide as the whole project
InitWide ==
    /\ checkpoints = <<>>
    /\ errors = <<>>
    /\ statistics = <<>>
    /\ config \in [max_issues : {WideBatch}, batch_size : {WideBatch},
                   checkpoint_every : 1..MaxEvery, fetch_comments : {FALSE}]
    /\ server_total = WideBatch
    /\ pc = "idle"
    /\ project_key = "DEMO"
    /\ total_scraped = 0 /\ current_index = 0 /\ issues = 0 /\ i = 0
    /\ total_comments = 0
    /\ obs = ObsInit
    /\ client = ClientIdle
    /\ limiter = LimiterNone
    /\ last_op = NoOp

SpecWide == InitWide /\ [][Next]_vars

\* ------------------------------------------------ JiraClient
\* what session.get produces: an HTTP status code, or an exception
Timeout         == -1    \* requests.exceptions.Timeout
ConnectionError == -2    \* any other requests.exceptions.RequestException
StatusCodes     == {200, 403, 404, 429, 500, 503}
Outcomes        == StatusCodes \cup {Timeout, ConnectionError}

\* the Retry-After header of a 429 response; NoHeader when it is absent
NoHeader         == -1
RetryAfterValues == {NoHeader, 2}

\* jira_client.py:88
DefaultRetryAfter == 60
RetryAfter(header) == IF header = NoHeader THEN DefaultRetryAfter ELSE header

\* the backoff growing linearly with the attempt index
BackoffWait_linear(attempt) == client.backoff_factor * attempt

\* jira_client.py:95,107,114
BackoffWait(attempt) == client.backoff_factor ^ attempt

\* jira_client.py:94
IsServerError(status_code) == 500 <= status_code /\ status_code < 600

\* requests' raise_for_status, jira_client.py:101,137
RaisesForStatus(status_code) == 400 <= status_code /\ status_code < 600

ClientFinished == client.state \in {"idle", "returned", "raised"}

\* the iteration repeated with the same attempt number
NextAttempt_same(attempt) == attempt

\* jira_client.py:78  for attempt in range(retry_attempts): the next iteration
NextAttempt(attempt) == attempt + 1

\* wait_if_needed called before the retry loop only
Granted_once(grants) == IF grants = 0 THEN 1 ELSE grants

\* jira_client.py:81,135  wait_if_needed returns: one more grant
Granted(grants) == grants + 1

\* one loop iteration up to the response: wait_if_needed, then session.get
Attempted(outcome) ==
    [client EXCEPT !.grants = Granted(client.grants), !.requests = @ + 1,
                   !.history = Append(@, outcome)]

InLoop ==
    /\ client.op = "search_issues"
    /\ client.state = "running"
    /\ client.attempt < client.retry_attempts

fetchFrozen ==
    UNCHANGED <<checkpoints, errors, statistics, config, server_total, pc,
                project_key, total_scraped, current_index, issues, i,
                total_comments, obs, limiter, last_op>>

\* jira_client.py:42-78  search_issues is entered
CallSearch ==
    /\ ClientFinished
    /\ client' = [client EXCEPT !.op = "search_issues", !.state = "running",
                                !.attempt = 0, !.sleeps = <<>>, !.requests = 0,
                                !.grants = 0, !.history = <<>>, !.result = "none"]
    /\ fetchFrozen

\* jira_client.py:86-91  HTTP 429: sleep Retry-After, next iteration
SearchRateLimited ==
    /\ InLoop
    /\ \E header \in RetryAfterValues :
          client' = [Attempted(429) EXCEPT !.sleeps = Append(@, RetryAfter(header)),
                                           !.attempt = NextAttempt(@)]
    /\ fetchFrozen

\* jira_client.py:93-98  HTTP 5xx: backoff, next iteration
SearchServerError ==
    /\ InLoop
    /\ \E code \in {c \in StatusCodes : IsServerError(c)} :
          client' = [Attempted(code) EXCEPT
                        !.sleeps = Append(@, BackoffWait(client.attempt)),
                        !.attempt = NextAttempt(@)]
    /\ fetchFrozen

\* jira_client.py:100-104  a status that raise_for_status accepts: return the page
SearchSuccess ==
    /\ InLoop
    /\ \E code \in {c \in StatusCodes : c # 429 /\ ~IsServerError(c)
                                        /\ ~RaisesForStatus(c)} :
          client' = [Attempted(code) EXCEPT !.state = "returned", !.result = "json"]
    /\ fetchFrozen

\* jira_client.py:106-109  session.get times out: backoff, next iteration
SearchTimeout ==
    /\ InLoop
    /\ client' = [Attempted(Timeout) EXCEPT
                     !.sleeps = Append(@, BackoffWait(client.attempt)),
                     !.attempt = NextAttempt(@)]
    /\ fetchFrozen

\* jira_client.py:101,111-116  any other RequestException, the HTTPError that
\* raise_for_status raises for a 4xx included: raise on the last attempt,
\* otherwise backoff and next iteration
SearchRequestException ==
    /\ InLoop
    /\ \E outcome \in {ConnectionError} \cup
                      {c \in StatusCodes : c # 429 /\ ~IsServerError(c)
                                           /\ RaisesForStatus(c)} :
          client' = IF client.attempt = client.retry_attempts - 1
                    THEN [Attempted(outcome) EXCEPT !.state = "raised",
                                                    !.result = "Exception"]
                    ELSE [Attempted(outcome) EXCEPT
                             !.sleeps = Append(@, BackoffWait(client.attempt)),
                             !.attempt = NextAttempt(@)]
    /\ fetchFrozen

\* jira_client.py:78,118  the loop is exhausted
SearchExhausted ==
    /\ client.op = "search_issues"
    /\ client.state = "running"
    /\ ~(client.attempt < client.retry_attempts)
    /\ client' = [client EXCEPT !.state = "raised", !.result = "Exception"]
    /\ fetchFrozen

\* jira_client.py:120-141  get_issue: one attempt, every exception becomes None
GetIssue ==
    /\ ClientFinished
    /\ \E outcome \in Outcomes :
          LET entered == [client EXCEPT !.op = "get_issue", !.attempt = 0,
                                        !.sleeps = <<>>, !.requests = 1,
                                        !.grants = Granted(0),
                                        !.history = <<outcome>>]
          IN client' = IF outcome \in StatusCodes /\ ~RaisesForStatus(outcome)
                       THEN [entered EXCEPT !.state = "returned", !.result = "json"]
                       ELSE [entered EXCEPT !.state = "returned", !.result = "None"]
    /\ fetchFrozen

InitClient ==
    /\ checkpoints = <<>>
    /\ errors = <<>>
    /\ statistics = <<>>
    /\ config = [max_issues |-> 0, batch_size |-> 1, checkpoint_every |-> 1,
                 fetch_comments |-> FALSE]
    /\ server_total = 0
    /\ pc = "idle"
    /\ project_key = "DEMO"
    /\ total_scraped = 0 /\ current_index = 0 /\ issues = 0 /\ i = 0
    /\ total_comments = 0
    /\ obs = ObsInit
    /\ limiter = LimiterNone
    /\ last_op = NoOp
    /\ \E r \in 0..MaxRetry, b \in 1..MaxBackoff :
          client = [op |-> "none", state |-> "idle", attempt |-> 0, sleeps |-> <<>>,
                    requests |-> 0, grants |-> 0, history |-> <<>>, result |-> "none",
                    retry_attempts |-> r, backoff_factor |-> b]

NextClient ==
    \/ CallSearch
    \/ SearchRateLimited
    \/ SearchServerError
    \/ SearchSuccess
    \/ SearchTimeout
    \/ SearchRequestException
    \/ SearchExhausted
    \/ GetIssue

SpecClient == InitClient /\ [][NextClient]_vars

\* jira_client.py:78-118  one step of a search_issues call that is under way
SearchStep ==
    \/ SearchRateLimited
    \/ SearchServerError
    \/ SearchSuccess
    \/ SearchTimeout
    \/ SearchRequestException
    \/ SearchExhausted

\* session.get is called with timeout=30 and every sleep is finite
\* (jira_client.py:84,90,97,109,116): a call under way takes its next step
SpecClientFair == SpecClient /\ WF_vars(SearchStep)

\* ------------------------------------------------ RateLimiter
\* Time is counted in tenths of a second.
Window == 600    \* the 60 s window, rate_limiter.py:44,50
Buffer == 1      \* the 0.1 s added to the window sleep, rate_limiter.py:50
Epoch  == 1000   \* what time.time() returns when the limiter is constructed

Threads  == 1..MaxThreads
NoThread == 0
RpmValues == (-1)..MaxRpm
Ticks      == {200, 300}      \* amounts of time that pass between two steps
Overshoots == {0, 1}          \* how much longer than asked time.sleep may sleep

\* rate_limiter.py:28  60.0 / requests_per_minute, for a cap other than 0
MinInterval(n) == IF n > 0 THEN Window \div n ELSE 0 - (Window \div (0 - n))

\* rate_limiter.py:44-46  popleft while the head is older than the cutoff
Prune(times, cutoff) ==
    LET stale == {k \in 0..Len(times) : \A j \in 1..k : times[j] < cutoff}
        n == CHOOSE k \in stale : \A m \in stale : m <= k
    IN SubSeq(times, n + 1, Len(times))

\* the window sleep without its 0.1 s buffer
WindowSleep_nobuffer(now, oldest) == Window - (now - oldest)

\* rate_limiter.py:50
WindowSleep(now, oldest) == Window - (now - oldest) + Buffer

\* the spacing wait left out
SpacingWait_none(now, last) == 0

\* rate_limiter.py:57-59  the wait that keeps min_interval between two grants
SpacingWait(now, last) ==
    IF now - last < limiter.min_interval
    THEN limiter.min_interval - (now - last) ELSE 0

\* a with-block that does not take the lock
LockFree_ignored == TRUE

\* rate_limiter.py:40  the lock can be taken
LockFree == limiter.lock = NoThread

IdleFrame ==
    [pc |-> "idle", now |-> 0, nwin |-> 0, oldest |-> 0, wsleep |-> 0,
     ssleep |-> 0, wake |-> 0, raised |-> FALSE]

\* time.sleep returns at its deadline or later
Max(a, b) == IF a > b THEN a ELSE b

\* get_stats has not returned yet
NoStats == [requests_last_minute |-> -1, limit |-> 0, at |-> -1]

\* every timestamp still in the deque counted as recent
Recent_all(t, cutoff) == TRUE

\* rate_limiter.py:74  the test of the count
Recent(t, cutoff) == t > cutoff

Unconstructed ==
    [constructed |-> "no", requests_per_minute |-> 0, min_interval |-> 0,
     last_request_time |-> 0, request_times |-> <<>>, lock |-> NoThread,
     clock |-> Epoch, frames |-> [t \in Threads |-> IdleFrame], grants |-> <<>>,
     grantees |-> {}, stats |-> NoStats]

\* the lock given up for the time of a sleep
LockWhileAsleep_released(t) == NoThread

\* rate_limiter.py:40,53,60  time.sleep is called inside the with-block
LockWhileAsleep(t) == t

\* the caller of get_stats has taken the returned value
Consumed == [limiter EXCEPT !.stats = NoStats]

limiterFrozen ==
    UNCHANGED <<checkpoints, errors, statistics, config, server_total, pc,
                project_key, total_scraped, current_index, issues, i,
                total_comments, obs, client, last_op>>

\* rate_limiter.py:20-31  RateLimiter(n); 60.0 / 0 raises ZeroDivisionError
Construct(n) ==
    /\ limiter.constructed = "no"
    /\ limiter' = IF n = 0
                  THEN [limiter EXCEPT !.constructed = "error",
                                       !.requests_per_minute = n]
                  ELSE [limiter EXCEPT !.constructed = "ok",
                                       !.requests_per_minute = n,
                                       !.min_interval = MinInterval(n)]
    /\ limiterFrozen

\* rate_limiter.py:40-46  the limiter once t holds the lock, has read the
\* clock and has pruned
Entered(t) ==
    LET pruned == Prune(limiter.request_times, limiter.clock - Window)
    IN [Consumed EXCEPT
           !.lock = t,
           !.request_times = pruned,
           !.frames[t] = [IdleFrame EXCEPT !.pc = "check", !.now = limiter.clock,
                             !.nwin = Len(pruned),
                             !.oldest = IF pruned = <<>> THEN 0 ELSE pruned[1]]]

\* rate_limiter.py:40-46  take the lock, read the clock, prune
Enter(t) ==
    /\ limiter.constructed = "ok"
    /\ limiter.frames[t].pc = "idle"
    /\ Len(limiter.grants) < MaxGrants
    /\ LockFree
    /\ limiter' = Entered(t)
    /\ limiterFrozen

\* rate_limiter.py:49-53  the window is full: go to sleep until the oldest expires
WindowCheck(t) ==
    /\ limiter.constructed = "ok"
    /\ limiter.frames[t].pc = "check"
    /\ LET f == limiter.frames[t]
           times == limiter.request_times
       IN IF Len(times) >= limiter.requests_per_minute
          THEN IF times = <<>>
               THEN \* request_times[0] on an empty deque: IndexError leaves the block
                    limiter' = [Consumed EXCEPT
                        !.lock = IF @ = t THEN NoThread ELSE @,
                        !.frames[t] = [IdleFrame EXCEPT !.raised = TRUE]]
               ELSE LET sleep_time == WindowSleep(f.now, times[1])
                    IN IF sleep_time > 0
                       THEN limiter' = [Consumed EXCEPT
                                !.lock = LockWhileAsleep(t),
                                !.frames[t] = [f EXCEPT !.pc = "wsleep",
                                    !.wsleep = sleep_time,
                                    !.wake = limiter.clock + sleep_time]]
                       ELSE limiter' = [Consumed EXCEPT !.frames[t].pc = "spacing"]
          ELSE limiter' = [Consumed EXCEPT !.frames[t].pc = "spacing"]
    /\ limiterFrozen

\* rate_limiter.py:53-54  time.sleep returns, the clock is read again
WindowWake(t) ==
    /\ limiter.constructed = "ok"
    /\ limiter.frames[t].pc = "wsleep"
    /\ \E extra \in Overshoots :
          LET woke == Max(limiter.clock, limiter.frames[t].wake + extra)
          IN limiter' = [Consumed EXCEPT
                 !.clock = woke,
                 !.frames[t].pc = "spacing",
                 !.frames[t].now = woke]
    /\ limiterFrozen

\* rate_limiter.py:56-60  keep min_interval since the last grant: go to sleep
SpacingCheck(t) ==
    /\ limiter.constructed = "ok"
    /\ limiter.frames[t].pc = "spacing"
    /\ LET f == limiter.frames[t]
           wait_time == SpacingWait(f.now, limiter.last_request_time)
       IN IF f.now - limiter.last_request_time < limiter.min_interval
          THEN limiter' = [Consumed EXCEPT
                   !.lock = LockWhileAsleep(t),
                   !.frames[t] = [f EXCEPT !.pc = "ssleep", !.ssleep = wait_time,
                                     !.wake = limiter.clock + wait_time]]
          ELSE limiter' = [Consumed EXCEPT !.frames[t].pc = "record"]
    /\ limiterFrozen

\* rate_limiter.py:60-61  time.sleep returns, the clock is read again
SpacingWake(t) ==
    /\ limiter.constructed = "ok"
    /\ limiter.frames[t].pc = "ssleep"
    /\ \E extra \in Overshoots :
          LET woke == Max(limiter.clock, limiter.frames[t].wake + extra)
          IN limiter' = [Consumed EXCEPT
                 !.clock = woke,
                 !.frames[t].pc = "record",
                 !.frames[t].now = woke]
    /\ limiterFrozen

\* rate_limiter.py:63-65  record the grant, leave the with-block
Record(t) ==
    /\ limiter.constructed = "ok"
    /\ limiter.frames[t].pc = "record"
    /\ LET now == limiter.frames[t].now
       IN limiter' = [Consumed EXCEPT
              !.request_times = Append(@, now),
              !.last_request_time = now,
              !.lock = IF @ = t THEN NoThread ELSE @,
              !.grants = Append(@, now),
              !.grantees = @ \cup {t},
              !.frames[t].pc = "idle"]
    /\ limiterFrozen

\* rate_limiter.py:67-80  get_stats: under the lock, count the recent
\* timestamps; stats holds what the call returned, until the next step
GetStats(t) ==
    /\ limiter.constructed = "ok"
    /\ limiter.frames[t].pc = "idle"
    /\ LockFree
    /\ LET cutoff == limiter.clock - Window
           recent_requests ==
               Cardinality({j \in 1..Len(limiter.request_times) :
                               Recent(limiter.request_times[j], cutoff)})
       IN limiter' = [limiter EXCEPT
              !.stats = [requests_last_minute |-> recent_requests,
                         limit |-> limiter.requests_per_minute,
                         at |-> limiter.clock]]
    /\ limiterFrozen

\* time passes
Tick ==
    /\ limiter.clock < MaxClock
    /\ \E d \in Ticks : limiter' = [Consumed EXCEPT !.clock = @ + d]
    /\ limiterFrozen

InitLimiter ==
    /\ checkpoints = <<>>
    /\ errors = <<>>
    /\ statistics = <<>>
    /\ config = [max_issues |-> 0, batch_size |-> 1, checkpoint_every |-> 1,
                 fetch_comments |-> FALSE]
    /\ server_total = 0
    /\ pc = "idle"
    /\ project_key = "DEMO"
    /\ total_scraped = 0 /\ current_index = 0 /\ issues = 0 /\ i = 0
    /\ total_comments = 0
    /\ obs = ObsInit
    /\ client = ClientIdle
    /\ limiter = Unconstructed
    /\ last_op = NoOp

NextLimiter ==
    \/ \E n \in RpmValues : Construct(n)
    \/ \E t \in Threads : Enter(t)
    \/ \E t \in Threads : WindowCheck(t)
    \/ \E t \in Threads : WindowWake(t)
    \/ \E t \in Threads : SpacingCheck(t)
    \/ \E t \in Threads : SpacingWake(t)
    \/ \E t \in Threads : Record(t)
    \/ \E t \in Threads : GetStats(t)
    \/ Tick

SpecLimiter == InitLimiter /\ [][NextLimiter]_vars

\* calls of wait_if_needed that are under way
Calling == {t \in Threads : limiter.frames[t].pc # "idle"}

\* rate_limiter.py:33,40  wait_if_needed is called: the caller queues for the lock
Call(t) ==
    /\ limiter.constructed = "ok"
    /\ limiter.frames[t].pc = "idle"
    /\ Len(limiter.grants) + Cardinality(Calling) < MaxGrants
    /\ limiter' = [Consumed EXCEPT !.frames[t] = [IdleFrame EXCEPT !.pc = "lock"]]
    /\ limiterFrozen

\* rate_limiter.py:40-46  a queued caller gets the lock, reads the clock, prunes
Acquire(t) ==
    /\ limiter.constructed = "ok"
    /\ limiter.frames[t].pc = "lock"
    /\ LockFree
    /\ limiter' = Entered(t)
    /\ limiterFrozen

\* rate_limiter.py:49-65  one step of the thread that holds the lock
Proceed(t) ==
    \/ WindowCheck(t)
    \/ WindowWake(t)
    \/ SpacingCheck(t)
    \/ SpacingWake(t)
    \/ Record(t)

NextLimiterFair ==
    \/ \E n \in RpmValues : Construct(n)
    \/ \E t \in Threads : Call(t)
    \/ \E t \in Threads : Acquire(t)
    \/ \E t \in Threads : Proceed(t)
    \/ \E t \in Threads : GetStats(t)
    \/ Tick

\* the holder of the lock keeps running (every sleep is finite) and the lock
\* is fair: a queued caller that can take it again and again does take it
SpecLimiterFair ==
    /\ InitLimiter
    /\ [][NextLimiterFair]_vars
    /\ \A t \in Threads : WF_vars(Proceed(t)) /\ SF_vars(Acquire(t))

\* ------------------------------------------------ CheckpointManager, called directly
\* Any caller may make any sequence of store calls (main.py:99,127,158 make
\* some of them outside fetch_project).  last_op remembers the last call.
StoreProjects == {"DEMO", "OTHER"}
StoreKeys     == {ERROR, 0}
StoreValues   == 0..MaxStore
StoreTotals   == {0, 1}    \* total_issues passed to save_statistics

\* the DELETE without its WHERE clause
DeleteRow_all(table, project) == <<>>

\* checkpoint.py:167,169  DELETE FROM <table> WHERE project = ?
DeleteRow(table, project) == [q \in (DOMAIN table) \ {project} |-> table[q]]

storeFrozen ==
    UNCHANGED <<config, server_total, pc, project_key, total_scraped, current_index,
                issues, i, total_comments, obs, client, limiter>>

\* checkpoint.py:85-107
StoreSave(p, k, o, t) ==
    /\ checkpoints' = save_checkpoint(p, k, o, t)
    /\ last_op' = [op |-> "save_checkpoint", project |-> p, last_issue_key |-> k,
                   last_index |-> o, total_scraped |-> t]
    /\ UNCHANGED <<errors, statistics>>
    /\ storeFrozen

\* checkpoint.py:109-116
StoreMarkComplete(p) ==
    /\ checkpoints' = mark_complete(p)
    /\ last_op' = [op |-> "mark_complete", project |-> p]
    /\ UNCHANGED <<errors, statistics>>
    /\ storeFrozen

\* checkpoint.py:118-132
StoreLogError(p, k) ==
    /\ Len(errors) < MaxLog
    /\ errors' = log_error(p, k)
    /\ last_op' = [op |-> "log_error", project |-> p]
    /\ UNCHANGED <<checkpoints, statistics>>
    /\ storeFrozen

\* checkpoint.py:134-151
StoreSaveStatistics(p, n) ==
    /\ statistics' = save_statistics(p, n, 0)
    /\ last_op' = [op |-> "save_statistics", project |-> p]
    /\ UNCHANGED <<checkpoints, errors>>
    /\ storeFrozen

\* checkpoint.py:164-170
StoreReset(p) ==
    /\ checkpoints' = DeleteRow(checkpoints, p)
    /\ errors' = ErrorsWithout(p)
    /\ statistics' = DeleteRow(statistics, p)
    /\ last_op' = [op |-> "reset_project", project |-> p]
    /\ storeFrozen

\* checkpoint.py:15-64  a new database: the three tables are empty
InitStore ==
    /\ checkpoints = <<>>
    /\ errors = <<>>
    /\ statistics = <<>>
    /\ last_op = NoOp
    /\ config = [max_issues |-> 0, batch_size |-> 1, checkpoint_every |-> 1,
                 fetch_comments |-> FALSE]
    /\ server_total = 0
    /\ pc = "idle"
    /\ project_key = "DEMO"
    /\ total_scraped = 0 /\ current_index = 0 /\ issues = 0 /\ i = 0
    /\ total_comments = 0
    /\ obs = ObsInit
    /\ client = ClientIdle
    /\ limiter = LimiterNone

NextStore ==
    \/ \E p \in StoreProjects, k \in StoreKeys, o \in StoreValues, t \in {0, MaxStore} :
          StoreSave(p, k, o, t)
    \/ \E p \in StoreProjects : StoreMarkComplete(p)
    \/ \E p \in StoreProjects : StoreLogError(p, UNKNOWN)
    \/ \E p \in StoreProjects, n \in StoreTotals : StoreSaveStatistics(p, n)
    \/ \E p \in StoreProjects : StoreReset(p)

SpecStore == InitStore /\ [][NextStore]_vars

\* ================================================================ claims
\* ---------------------------------------------------------------- C1
\* C1: no position is lost across interrupt and resume: when a run is killed
\* after a periodic checkpoint and fetch_project is invoked again, the first
\* batch request of the resumed run starts at the first position that had
\* not been yielded when that checkpoint was written, or below it.
ResumeCoversFirstUnyielded ==
    (/\ pc = "loop" /\ obs.search_calls = 0
     /\ obs.prev_end = "killed" /\ obs.cp_kind = "periodic"
     /\ current_index < config.max_issues)
        => current_index <= obs.cp_next

\* ---------------------------------------------------------------- C2
\* C2: when the stored checkpoint has status=completed, fetch_project yields
\* nothing, makes no call to the client and writes nothing to the store.
CompletedProjectSkipped ==
    (pc \notin {"idle", "reset"} /\ obs.cp_at_start # None
     /\ obs.cp_at_start.status = "completed")
        => /\ pc = "skipped"
           /\ obs.yielded = {}
           /\ obs.search_calls = 0
           /\ obs.store_writes = 0
           /\ get_checkpoint(project_key) = obs.cp_at_start

CompletedProjectSkippedWitness ==
    pc = "skipped" /\ obs.cp_at_start # None /\ obs.cp_at_start.status = "completed"

\* ---------------------------------------------------------------- C3
\* C3: the first search request of an invocation uses offset k+1 and running
\* total t when an in_progress checkpoint (offset k, total t) is stored, and
\* offset 0 and total 0 when no checkpoint is stored.
ResumeOffset ==
    obs.first_request # -1 =>
        IF obs.cp_at_start = None
        THEN obs.first_request = 0 /\ obs.first_total = 0
        ELSE /\ obs.cp_at_start.status = "in_progress"
             /\ obs.first_request = obs.cp_at_start.last_index + 1
             /\ obs.first_total = obs.cp_at_start.total_scraped

ResumeOffsetWitness ==
    /\ obs.cp_at_start # None
    /\ obs.cp_at_start.status = "in_progress"
    /\ obs.cp_at_start.last_index = 1
    /\ obs.first_request = 2
    /\ obs.first_total = 1

\* ---------------------------------------------------------------- C4
\* C4: duplication after a crash is bounded: the records yielded in a killed
\* run and yielded again in the resumed run number at most checkpointEvery - 1.
DuplicationBounded ==
    obs.prev_end = "killed" =>
        Cardinality(obs.yielded \cap obs.prev_yielded) <= config.checkpoint_every - 1

\* ---------------------------------------------------------------- C5
FreshCleanRun ==
    /\ pc \notin {"idle", "reset", "killed"}
    /\ obs.cp_at_start = None
    /\ obs.clean
    /\ server_total >= config.max_issues

MultiplesOf(k, n) == [j \in 1..(n \div k) |-> j * k]

\* C5: in a fresh run without failures against a server holding at least
\* maxRecords records, save_checkpoint is called exactly once after each yield
\* whose running total is a multiple of checkpointEvery and at no other time,
\* and the finished run has yielded exactly maxRecords records.
FreshRunCheckpoints ==
    FreshCleanRun =>
        /\ obs.save_log = MultiplesOf(config.checkpoint_every, total_scraped)
        /\ Cardinality(obs.yielded) = total_scraped + (IF pc = "yielded" THEN 1 ELSE 0)
        /\ (pc = "done" => total_scraped = config.max_issues)

FreshRunCheckpointsWitness ==
    /\ FreshCleanRun /\ pc = "done"
    /\ config.max_issues = 3 /\ config.batch_size = 2 /\ config.checkpoint_every = 2
    /\ obs.save_log = <<2>>
    /\ Cardinality(obs.yielded) = 3

\* ---------------------------------------------------------------- C6
\* C6: whenever fetch_project terminates normally, load(project) returns a
\* checkpoint with status=completed and the statistics record holds the final
\* running total, also when fewer than checkpointEvery records were yielded.
CompletedAfterNormalEnd ==
    pc = "done" =>
        /\ get_checkpoint(project_key) # None
        /\ get_checkpoint(project_key).status = "completed"
        /\ get_statistics(project_key) # None
        /\ get_statistics(project_key).total_issues = total_scraped

\* ---------------------------------------------------------------- C7
NonThrottleFailures ==
    Cardinality({j \in 1..Len(client.history) :
                    client.history[j] \notin {200, 429}})

\* C7: an HTTP 429 response does not consume a retry-attempt slot: search
\* gives up only after retryAttempts responses that were failures other
\* than 429.
ThrottleKeepsRetryBudget ==
    (client.op = "search_issues" /\ client.state = "raised")
        => NonThrottleFailures >= client.retry_attempts

\* ---------------------------------------------------------------- C8
OnlyServerErrors ==
    /\ client.op = "search_issues"
    /\ \A j \in 1..Len(client.history) :
          IsServerError(client.history[j]) \/ client.history[j] = Timeout

\* C8: against a server answering every attempt with 5xx or a timeout,
\* search makes exactly retryAttempts network attempts, sleeps
\* backoffFactor^attempt after the failed attempt with index attempt, whether
\* it was a 5xx or a timeout, and then fails.
BackoffOnServerErrors ==
    OnlyServerErrors =>
        /\ client.requests = Len(client.history)
        /\ client.attempt = Len(client.history)
        /\ Len(client.sleeps) = Len(client.history)
        /\ \A j \in 1..Len(client.sleeps) :
              client.sleeps[j] = client.backoff_factor ^ (j - 1)
        /\ client.state # "returned"
        /\ client.requests <= client.retry_attempts
        /\ (client.state = "raised" => client.requests = client.retry_attempts)

BackoffOnServerErrorsWitness ==
    /\ client.op = "search_issues" /\ client.state = "raised"
    /\ client.retry_attempts = 3 /\ client.backoff_factor = 2
    /\ client.history = <<500, Timeout, 503>>
    /\ client.sleeps = <<1, 2, 4>>

\* ---------------------------------------------------------------- C9
\* C9: a 4xx response other than 429 makes search raise at once, at any
\* attempt index, with no backoff sleep and no further network attempt.
ClientErrorFatal ==
    client.op = "search_issues" =>
        \A j \in 1..Len(client.history) :
            client.history[j] \in {403, 404} =>
                /\ client.state = "raised"
                /\ Len(client.history) = j
                /\ Len(client.sleeps) = j - 1

\* ---------------------------------------------------------------- C10
\* C10: get_issue returns None when the server answers 404, and raises to
\* its caller on a timeout, a connection failure or a server error.
GetIssueSurfacesErrors ==
    (client.op = "get_issue" /\ client.state # "running") =>
        /\ client.history[1] = 404 =>
              client.state = "returned" /\ client.result = "None"
        /\ (client.history[1] \in {Timeout, ConnectionError}
              \/ IsServerError(client.history[1])) =>
              client.state = "raised"

\* ---------------------------------------------------------------- C11
LimiterLive == limiter.constructed = "ok" /\ limiter.requests_per_minute > 0

\* grants inside the trailing window (t - 60 s, t]
GrantsInWindow(t) ==
    Cardinality({j \in 1..Len(limiter.grants) :
                    t - Window < limiter.grants[j] /\ limiter.grants[j] <= t})

\* C11: with any number of threads calling wait_if_needed on one limiter, the
\* grants that fall inside any trailing 60-second window never exceed the cap.
CapNeverExceeded ==
    LimiterLive =>
        \A k \in 1..Len(limiter.grants) :
            GrantsInWindow(limiter.grants[k]) <= limiter.requests_per_minute

CapNeverExceededWitness ==
    /\ LimiterLive
    /\ limiter.requests_per_minute = 2
    /\ Len(limiter.grants) = 3
    /\ limiter.grantees = {1, 2}
    /\ limiter.grants[3] - limiter.grants[1] <= Window + Buffer

\* ---------------------------------------------------------------- C12
\* C12: two consecutive grants of one limiter are at least 60/N apart,
\* whichever threads they went to, and the very first call is granted
\* without a spacing wait.
SpacingKept ==
    LimiterLive =>
        /\ \A j \in 2..Len(limiter.grants) :
              limiter.grants[j] - limiter.grants[j-1] >= limiter.min_interval
        /\ \A t \in Threads :
              (limiter.frames[t].pc = "record" /\ limiter.grants = <<>>)
                  => limiter.frames[t].ssleep = 0

SpacingKeptWitness ==
    /\ LimiterLive
    /\ Len(limiter.grants) = 2
    /\ limiter.grantees = {1, 2}
    /\ limiter.grants[2] - limiter.grants[1] = limiter.min_interval
    /\ \E t \in Threads : limiter.frames[t].ssleep > 0

\* ---------------------------------------------------------------- C13
\* C13 as stated: a call that finds fewer than N timestamps in the window
\* returns without sleeping, and a call that finds N sleeps until the oldest
\* one has left the window.
FirstCallsDoNotSleep ==
    LimiterLive =>
        \A t \in Threads :
            limiter.frames[t].pc = "record" =>
                IF limiter.frames[t].nwin < limiter.requests_per_minute
                THEN limiter.frames[t].wsleep = 0 /\ limiter.frames[t].ssleep = 0
                ELSE limiter.frames[t].now >=
                        limiter.frames[t].oldest + Window + Buffer

\* C13 amended: a call that finds fewer than N timestamps in the window never
\* sleeps for the window, it sleeps at most the 60/N spacing since the
\* previous grant and the very first call not at all; a call that finds N
\* timestamps sleeps until the oldest one has left the window.
WindowAndSpacingSleeps ==
    LimiterLive =>
        \A t \in Threads :
            limiter.frames[t].pc = "record" =>
                IF limiter.frames[t].nwin < limiter.requests_per_minute
                THEN /\ limiter.frames[t].wsleep = 0
                     /\ limiter.frames[t].ssleep <= limiter.min_interval
                     /\ (limiter.grants = <<>> => limiter.frames[t].ssleep = 0)
                ELSE /\ limiter.frames[t].wsleep > 0
                     /\ limiter.frames[t].now >=
                           limiter.frames[t].oldest + Window + Buffer

WindowAndSpacingSleepsWitness ==
    /\ LimiterLive
    /\ limiter.requests_per_minute = 2
    /\ Len(limiter.grants) = 2
    /\ \E t \in Threads :
          /\ limiter.frames[t].pc = "record"
          /\ limiter.frames[t].nwin = 2
          /\ limiter.frames[t].wsleep > 0

\* ---------------------------------------------------------------- C14
\* C14: after every return of wait_if_needed request_times holds at most N
\* entries, also when the call had to sleep because the window was full.
WindowSizeWithinCap ==
    LimiterLive => Len(limiter.request_times) <= limiter.requests_per_minute

\* ---------------------------------------------------------------- C15
\* C15: constructing a RateLimiter fails for every requests_per_minute <= 0,
\* and no limiter with a non-positive cap ever grants a request.
ConstructionRejectsNonPositive ==
    (limiter.constructed # "no" /\ limiter.requests_per_minute <= 0)
        => limiter.constructed = "error" /\ limiter.grants = <<>>

\* ---------------------------------------------------------------- C16
\* C16: after save_checkpoint(p, id, o, t), get_checkpoint(p) returns the
\* row (id, o, t, in_progress), whatever was stored for p before; the table
\* holds one row per project, with the values of the last save.
SaveThenGet ==
    last_op.op = "save_checkpoint"
        => /\ last_op.project \in DOMAIN checkpoints
           /\ get_checkpoint(last_op.project) =
                 [last_issue_key |-> last_op.last_issue_key,
                  last_index |-> last_op.last_index,
                  total_scraped |-> last_op.total_scraped,
                  status |-> "in_progress"]

\* a save made while the error log and the statistics table hold rows
SaveThenGetWitness ==
    /\ last_op.op = "save_checkpoint"
    /\ last_op.last_index = 0 /\ last_op.total_scraped = 1
    /\ last_op.last_issue_key = ERROR
    /\ get_checkpoint(last_op.project).last_index = 0
    /\ statistics # <<>>
    /\ errors # <<>>

\* ---------------------------------------------------------------- C18
\* C18: over any sequence of store calls, a checkpoint whose status is
\* completed stays completed until reset_project is called for its project.
CompletedUntilReset ==
    [][\A p \in StoreProjects :
          (/\ get_checkpoint(p) # None
           /\ get_checkpoint(p).status = "completed"
           /\ ~(p \in DOMAIN checkpoints' /\ checkpoints'[p].status = "completed"))
              => (last_op'.op = "reset_project" /\ last_op'.project = p)]_vars

\* ---------------------------------------------------------------- C17
\* C17: after reset_project(p), whatever was written for p before, the
\* checkpoint and the statistics of p are absent and no error entry of p
\* remains; the fetch_project invoked next starts at offset 0 with the
\* running total 0.
ResetStartsOver ==
    /\ pc = "reset" =>
          /\ get_checkpoint(project_key) = None
          /\ get_statistics(project_key) = None
          /\ \A n \in 1..Len(errors) : errors[n].project # project_key
    /\ (pc = "loop" /\ obs.prev_end = "reset" /\ obs.search_calls = 0) =>
          /\ current_index = 0
          /\ total_scraped = 0
          /\ obs.cp_at_start = None

\* the first batch of a run started right after a reset
ResetStartsOverWitness ==
    /\ pc = "process"
    /\ obs.prev_end = "reset"
    /\ obs.search_calls = 1
    /\ obs.first_request = 0 /\ obs.first_total = 0
    /\ config.max_issues = 3 /\ config.checkpoint_every = 1

\* ---------------------------------------------------------------- C19
\* C19: while the checkpoint of a project stays in_progress, no checkpoint
\* write of any run stores an offset below the one stored before it.
OffsetNeverDecreases ==
    [][\A p \in Projects :
          (/\ get_checkpoint(p) # None
           /\ get_checkpoint(p).status = "in_progress"
           /\ p \in DOMAIN checkpoints'
           /\ checkpoints'[p].status = "in_progress")
              => checkpoints'[p].last_index >= checkpoints[p].last_index]_vars

\* ---------------------------------------------------------------- C20
\* C20: a record whose enrichment fails does not end the batch: the run goes
\* on with the next record, the failing record is neither yielded nor
\* counted, and one entry carrying its identifier is appended to the error
\* log.
EnrichFailureIsolated ==
    [][(EnrichFail \/ EnrichFailLogFails)
          => /\ pc' = "process"
             /\ i' = i + 1
             /\ obs'.yielded = obs.yielded
             /\ total_scraped' = total_scraped
             /\ errors' = Append(errors, [project |-> project_key,
                                          issue_key |-> current_index + i])]_vars

\* ---------------------------------------------------------------- C21
\* C21: when search_issues fails for a batch, fetch_project writes one
\* checkpoint holding the offset of the failed batch and the running total
\* with status in_progress, raises, and writes nothing else (no
\* mark_complete, no save_statistics); after a failed run the status of the
\* project is not completed.
SearchFailureSnapshot ==
    /\ [](pc = "failed" =>
            /\ get_checkpoint(project_key) # None
            /\ get_checkpoint(project_key).status = "in_progress")
    /\ [][(pc = "loop" /\ pc' = "failed") =>
            /\ checkpoints' = [q \in (DOMAIN checkpoints) \cup {project_key} |->
                  IF q = project_key
                  THEN [last_issue_key |-> ERROR, last_index |-> current_index,
                        total_scraped |-> total_scraped, status |-> "in_progress"]
                  ELSE checkpoints[q]]
            /\ obs'.store_writes = obs.store_writes + 1
            /\ statistics' = statistics
            /\ errors' = errors]_vars

\* the second search of a run fails after one record was yielded and one
\* was skipped
SearchFailureSnapshotWitness ==
    /\ pc = "failed"
    /\ i = issues
    /\ obs.search_calls = 2
    /\ get_checkpoint(project_key) =
          [last_issue_key |-> ERROR, last_index |-> 2, total_scraped |-> 1,
           status |-> "in_progress"]

\* ---------------------------------------------------------------- C22
\* C22: when save_checkpoint raises during a periodic checkpoint the run
\* ends in failure (nothing more is yielded, the project is not marked
\* completed) and no per-record entry is added to the error log.
CheckpointWriteFailureFatal ==
    [][(AfterYieldSaveFails \/ AfterYieldLogFails) =>
            /\ pc' = "failed"
            /\ errors' = errors]_vars

\* ---------------------------------------------------------------- C23
\* C23: a periodic checkpoint is written after the yield it records, and a
\* resumed run never starts below the position of a record whose yield a
\* periodic checkpoint has recorded.
ResumeNotBelowRecorded ==
    (pc = "loop" /\ obs.search_calls = 0 /\ obs.cp_next # -1)
        => current_index >= obs.cp_next - 1

\* ---------------------------------------------------------------- C24
\* C24: the pagination loop goes on exactly while the running total is below
\* max_issues, and every batch request asks for
\* min(batch_size, max_issues - total_scraped) records, also after skipped
\* records and in resumed runs.
BatchSizedByTotal ==
    [][/\ (SearchOk \/ SearchFail) =>
            /\ total_scraped < config.max_issues
            /\ batch_max = Min(config.batch_size, config.max_issues - total_scraped)
       /\ LoopExit => ~(total_scraped < config.max_issues)]_vars

\* ---------------------------------------------------------------- C25
\* C25: with a server that returns at most the requested page, the running
\* total and every total written to a checkpoint or to the statistics stay
\* at or below max_issues over all runs and resumes of a project, and no
\* batch is requested once the total has reached max_issues.
TotalWithinMax ==
    /\ [](/\ total_scraped <= config.max_issues
          /\ \A p \in DOMAIN checkpoints :
                checkpoints[p].total_scraped <= config.max_issues
          /\ \A p \in DOMAIN statistics :
                statistics[p].total_issues <= config.max_issues)
    /\ [][(SearchOk \/ SearchFail) => total_scraped < config.max_issues]_vars

\* ---------------------------------------------------------------- C26
\* C26: within one run every batch request after the first starts where the
\* previous one started plus the number of records the previous batch
\* returned, short batches included; records are yielded in increasing
\* position and no position is yielded twice in the run.
ContiguousRequests ==
    [][/\ ((SearchOk \/ SearchFail) /\ obs.search_calls > 0)
             => current_index = obs.last_request + issues
       /\ YieldIssue
             => \A q \in obs.yielded : q < current_index + i]_vars

\* the second request of a run follows a batch that returned one record
\* where two were asked for
ContiguousRequestsWitness ==
    /\ pc = "yielded"
    /\ obs.search_calls = 2
    /\ obs.first_request = 0
    /\ obs.last_request = 1
    /\ config.batch_size = 2 /\ config.max_issues = 3
    /\ obs.yielded = {0, 1}

\* ---------------------------------------------------------------- C27
\* C27: in search_issues and in get_issue the number of completed
\* wait_if_needed calls equals the number of HTTP requests issued, the
\* retries after 429, 5xx and timeouts included.
GrantPerRequest ==
    /\ client.state # "idle" =>
          /\ client.grants = client.requests
          /\ client.requests = Len(client.history)

\* three attempts of one search: a 429, a 5xx and a timeout
GrantPerRequestWitness ==
    /\ client.state # "idle"
    /\ client.op = "search_issues"
    /\ client.grants = 3
    /\ \E a, b, c \in 1..3 :
          /\ client.history[a] = 429
          /\ IsServerError(client.history[b])
          /\ client.history[c] = Timeout

\* ---------------------------------------------------------------- C28
\* C28: mark_complete(p) sets the status of the checkpoint of p to completed
\* and leaves its last record id, offset and total, the rows of the other
\* projects, the error log and the statistics as they were; when p has no
\* checkpoint row it creates none.
MarkCompleteFrame ==
    [][last_op'.op = "mark_complete" =>
          /\ DOMAIN checkpoints' = DOMAIN checkpoints
          /\ \A q \in DOMAIN checkpoints :
                /\ checkpoints'[q].last_issue_key = checkpoints[q].last_issue_key
                /\ checkpoints'[q].last_index = checkpoints[q].last_index
                /\ checkpoints'[q].total_scraped = checkpoints[q].total_scraped
                /\ checkpoints'[q].status =
                      IF q = last_op'.project THEN "completed"
                      ELSE checkpoints[q].status
          /\ errors' = errors
          /\ statistics' = statistics]_vars

\* a completed row with its offset and total, next to an in_progress row of
\* the other project, an error entry and a statistics row
MarkCompleteFrameWitness ==
    /\ last_op.op = "mark_complete"
    /\ get_checkpoint(last_op.project) =
          [last_issue_key |-> 0, last_index |-> 1, total_scraped |-> 1,
           status |-> "completed"]
    /\ \E q \in StoreProjects \ {last_op.project} :
          /\ get_checkpoint(q) # None
          /\ get_checkpoint(q).status = "in_progress"
    /\ errors # <<>>
    /\ statistics # <<>>

\* ---------------------------------------------------------------- C29
\* C29: get_stats changes nothing of the limiter (request_times,
\* last_request_time, lock and the callers' frames stay as they are, so the
\* grants that follow are the same) and returns the number of grants inside
\* the trailing 60-second window together with the configured cap.
GetStatsReadsOnly ==
    [][(limiter'.stats # NoStats /\ limiter'.stats # limiter.stats) =>
          /\ limiter' = [limiter EXCEPT !.stats = limiter'.stats]
          /\ limiter'.stats.at = limiter.clock
          /\ limiter'.stats.requests_last_minute = GrantsInWindow(limiter.clock)
          /\ limiter'.stats.limit = limiter.requests_per_minute]_vars

\* get_stats counts one of the two timestamps the deque still holds
GetStatsReadsOnlyWitness ==
    /\ LimiterLive
    /\ limiter.stats.at = limiter.clock
    /\ limiter.stats.requests_last_minute = 1
    /\ Len(limiter.request_times) = 2
    /\ limiter.stats.limit = 2

\* ---------------------------------------------------------------- C30
\* C30: at most one thread is between the pruning and the recording of
\* wait_if_needed, that thread holds the lock in every state on the way, its
\* sleeps included, and while it sleeps no step of any thread changes
\* request_times or last_request_time and no get_stats returns.
InsideSection(t) == limiter.frames[t].pc # "idle"

Asleep(t) == limiter.frames[t].pc \in {"wsleep", "ssleep"}

OneCriticalSection ==
    /\ [](limiter.constructed = "ok" =>
            /\ \A t, u \in Threads : (InsideSection(t) /\ InsideSection(u)) => t = u
            /\ \A t \in Threads : InsideSection(t) => limiter.lock = t
            /\ limiter.lock # NoThread => limiter.stats = NoStats)
    /\ [][(limiter.constructed = "ok" /\ \E t \in Threads : Asleep(t)) =>
            /\ limiter'.request_times = limiter.request_times
            /\ limiter'.last_request_time = limiter.last_request_time
            /\ limiter'.stats = NoStats]_vars

\* a thread sleeps for the window while the clock has moved on and the
\* other thread, granted before, is outside
OneCriticalSectionWitness ==
    /\ LimiterLive
    /\ limiter.grantees = {1, 2}
    /\ \E t \in Threads :
          /\ limiter.frames[t].pc = "wsleep"
          /\ limiter.lock = t
          /\ limiter.clock > limiter.frames[t].wake - limiter.frames[t].wsleep
          /\ \A u \in Threads \ {t} : ~InsideSection(u)

\* ---------------------------------------------------------------- C31
\* the entries of a project in an error log, in order
EntriesOf(log, project) ==
    LET F[n \in 0..Len(log)] ==
            IF n = 0 THEN <<>>
            ELSE IF log[n].project = project THEN Append(F[n-1], log[n])
                 ELSE F[n-1]
    IN F[Len(log)]

\* C31: a store call for project p (save_checkpoint, mark_complete,
\* log_error, save_statistics, reset_project) leaves the checkpoint, the
\* error entries and the statistics of every other project as they were, in
\* any interleaving of calls for the two projects.
OtherProjectsUntouched ==
    [][\A q \in StoreProjects \ {last_op'.project} :
          /\ (q \in DOMAIN checkpoints') = (q \in DOMAIN checkpoints)
          /\ q \in DOMAIN checkpoints => checkpoints'[q] = checkpoints[q]
          /\ (q \in DOMAIN statistics') = (q \in DOMAIN statistics)
          /\ q \in DOMAIN statistics => statistics'[q] = statistics[q]
          /\ EntriesOf(errors', q) = EntriesOf(errors, q)]_vars

\* one project was reset while the other holds a completed checkpoint, a
\* statistics row and an error entry
OtherProjectsUntouchedWitness ==
    /\ last_op.op = "reset_project"
    /\ \E q \in StoreProjects \ {last_op.project} :
          /\ get_checkpoint(q) # None
          /\ get_checkpoint(q).status = "completed"
          /\ get_statistics(q) # None
          /\ EntriesOf(errors, q) # <<>>

\* ---------------------------------------------------------------- C32
\* C32: log_error appends exactly one entry for its project and leaves the
\* stored entries as they are, an entry equal to a stored one included; no
\* call other than reset_project removes or changes an entry.
ErrorLogAppendOnly ==
    [][IF last_op'.op = "log_error"
       THEN /\ Len(errors') = Len(errors) + 1
            /\ SubSeq(errors', 1, Len(errors)) = errors
            /\ errors'[Len(errors')].project = last_op'.project
       ELSE last_op'.op # "reset_project" => errors' = errors]_vars

\* the same error was logged twice for one project
ErrorLogAppendOnlyWitness ==
    /\ last_op.op = "log_error"
    /\ Len(errors) = 2
    /\ errors[1] = errors[2]
    /\ checkpoints # <<>>

\* ---------------------------------------------------------------- C33
\* C33: when the search of the batch at offset k has failed, the next
\* invocation starts its first request at k or below, so that position k is
\* requested again; failing again and again on the first batch therefore
\* never moves the request forward.
FailedBatchRequestedAgain ==
    [][(/\ pc = "failed" /\ i = issues /\ obs.last_request = current_index
        /\ pc' = "loop" /\ project_key' = project_key)
          => current_index' <= current_index]_vars

\* ---------------------------------------------------------------- C34
\* C34: every call of search_issues ends, by returning a page or by raising,
\* whatever the server answers; it issues at most retry_attempts requests,
\* and none at all when retry_attempts = 0.
SearchTerminates ==
    /\ [](client.op = "search_issues" =>
            /\ client.requests <= client.retry_attempts
            /\ (client.state = "returned" => client.result = "json")
            /\ (client.retry_attempts = 0 /\ client.state # "running")
                  => (client.state = "raised" /\ client.requests = 0))
    /\ ((client.op = "search_issues" /\ client.state = "running")
           ~> (client.op = "search_issues"
               /\ client.state \in {"returned", "raised"}))

\* a call that used its three attempts on a 429, a timeout and a connection
\* failure, and raised
SearchTerminatesWitness ==
    /\ client.op = "search_issues"
    /\ client.state = "raised"
    /\ client.retry_attempts = 3
    /\ client.history = <<429, Timeout, ConnectionError>>

\* ---------------------------------------------------------------- C35
\* C35: in every reachable state, a kill between two store writes of
\* fetch_project included, a project has a completed checkpoint exactly when
\* it has a statistics record.
CompletionConsistent ==
    \A p \in Projects :
        (get_checkpoint(p) # None /\ get_checkpoint(p).status = "completed")
            <=> (get_statistics(p) # None)

\* ---------------------------------------------------------------- C36
\* C36: every call of wait_if_needed returns: it sleeps at most once for the
\* window and once for the spacing and then records its timestamp; with
\* several callers and a fair lock every queued caller is granted.
EveryCallGranted ==
    /\ [][\A t \in Threads :
            /\ (limiter'.frames[t].pc = "wsleep" /\ limiter.frames[t].pc # "wsleep")
                  => limiter.frames[t].pc = "check"
            /\ (limiter'.frames[t].pc = "ssleep" /\ limiter.frames[t].pc # "ssleep")
                  => limiter.frames[t].pc = "spacing"
            /\ limiter.frames[t].pc \in {"spacing", "ssleep", "record"}
                  => limiter'.frames[t].pc \notin {"check", "wsleep"}]_vars
    /\ \A t \in Threads :
          (limiter.frames[t].pc = "lock") ~> (limiter.frames[t].pc = "record")

\* the same for limiters with a positive cap
EveryCallGrantedPositiveCap ==
    \A t \in Threads :
        (LimiterLive /\ limiter.frames[t].pc = "lock")
            ~> (limiter.frames[t].pc = "record")

====
